---- MODULE Spec2Model ----
(***************************************************************************)
(* Model of the lexical analyzer of src/3rdprogram.c.                      *)
(*                                                                         *)
(* A character is a one-character string; a C string is the sequence of    *)
(* its characters without the terminating NUL.  Cursor positions are the   *)
(* 0-based indices of the C code, so code[i] of the source is At(i) here.  *)
(***************************************************************************)
EXTENDS Integers, Sequences, FiniteSets, TLC

(***************************************************************************)
(* Characters                                                              *)
(***************************************************************************)

\* The terminating NUL of a C string (never a character of the input).
NUL == "NUL"

\* The printable ASCII characters, codes 32..126 in order (code 96 is
\* written by name).
Ascii ==
    <<" ", "!", "\"", "#", "$", "%", "&", "'", "(", ")", "*", "+", ",", "-",
      ".", "/", "0", "1", "2", "3", "4", "5", "6", "7", "8", "9", ":", ";",
      "<", "=", ">", "?", "@", "A", "B", "C", "D", "E", "F", "G", "H", "I",
      "J", "K", "L", "M", "N", "O", "P", "Q", "R", "S", "T", "U", "V", "W",
      "X", "Y", "Z", "[", "\\", "]", "^", "_", "BACKTICK", "a", "b", "c", "d", "e",
      "f", "g", "h", "i", "j", "k", "l", "m", "n", "o", "p", "q", "r", "s",
      "t", "u", "v", "w", "x", "y", "z", "{", "|", "}", "~">>

Chars == {Ascii[i] : i \in 1..Len(Ascii)} \cup {"\t", "\n", "\r", NUL}

\* The value of a char as an integer.
OrdTable ==
    [c \in Chars |->
        CASE c = NUL  -> 0
          [] c = "\t" -> 9
          [] c = "\n" -> 10
          [] c = "\r" -> 13
          [] OTHER    -> 31 + (CHOOSE i \in 1..Len(Ascii) : Ascii[i] = c)]

Ord(c) == OrdTable[c]

\* s[i] of a C string for 1 <= i <= strlen(s) + 1: the byte after the last
\* character is the terminator.
CharOf(s, i) == IF i \in 1..Len(s) THEN s[i] ELSE NUL

tolower(o) == IF o >= 65 /\ o <= 90 THEN o + 32 ELSE o

is_whitespace(ch) == ch = " " \/ ch = "\t" \/ ch = "\n" \/ ch = "\r"

is_letter(ch) ==
    LET lower == tolower(Ord(ch))
    IN  lower >= 97 /\ lower <= 122

is_digit(ch) == Ord(ch) >= 48 /\ Ord(ch) <= 57

\* isxdigit of <ctype.h>, used by strtod on a hexadecimal literal.
is_xdigit(ch) ==
    \/ is_digit(ch)
    \/ (tolower(Ord(ch)) >= 97 /\ tolower(Ord(ch)) <= 102)

\* strchr(s, ch) != NULL: ch is a character of s, or its terminator.
strchr(s, ch) == ch = NUL \/ \E i \in 1..Len(s) : s[i] = ch

\* The sign of strcmp(a, b): the difference of the first bytes that differ.
strcmp(a, b) ==
    LET n == (IF Len(a) < Len(b) THEN Len(a) ELSE Len(b)) + 1
        differ == {i \in 1..n : CharOf(a, i) # CharOf(b, i)}
    IN  IF differ = {} THEN 0
        ELSE LET i == CHOOSE k \in differ : \A m \in differ : k <= m
             IN  Ord(CharOf(a, i)) - Ord(CharOf(b, i))

(***************************************************************************)
(* The tables set by init_lexical_analyzer                                 *)
(***************************************************************************)

keywords ==
    << <<"a", "u", "t", "o">>,
       <<"b", "r", "e", "a", "k">>,
       <<"c", "a", "s", "e">>,
       <<"c", "h", "a", "r">>,
       <<"c", "o", "n", "s", "t">>,
       <<"c", "o", "n", "t", "i", "n", "u", "e">>,
       <<"d", "e", "f", "a", "u", "l", "t">>,
       <<"d", "o">>,
       <<"d", "o", "u", "b", "l", "e">>,
       <<"e", "l", "s", "e">>,
       <<"e", "n", "u", "m">>,
       <<"e", "x", "t", "e", "r", "n">>,
       <<"f", "l", "o", "a", "t">>,
       <<"f", "o", "r">>,
       <<"g", "o", "t", "o">>,
       <<"i", "f">>,
       <<"i", "n", "t">>,
       <<"l", "o", "n", "g">>,
       <<"r", "e", "g", "i", "s", "t", "e", "r">>,
       <<"r", "e", "t", "u", "r", "n">>,
       <<"s", "h", "o", "r", "t">>,
       <<"s", "i", "g", "n", "e", "d">>,
       <<"s", "i", "z", "e", "o", "f">>,
       <<"s", "t", "a", "t", "i", "c">>,
       <<"s", "t", "r", "u", "c", "t">>,
       <<"s", "w", "i", "t", "c", "h">>,
       <<"t", "y", "p", "e", "d", "e", "f">>,
       <<"u", "n", "i", "o", "n">>,
       <<"u", "n", "s", "i", "g", "n", "e", "d">>,
       <<"v", "o", "i", "d">>,
       <<"v", "o", "l", "a", "t", "i", "l", "e">>,
       <<"w", "h", "i", "l", "e">> >>

keywords_count == Len(keywords)

operators ==
    << <<"+">>, <<"-">>, <<"*">>, <<"/">>, <<"%">>, <<"=">>, <<"<">>,
       <<">">>, <<"!">>, <<"&">>, <<"|">>, <<"^">>, <<"~">>,
       <<"+", "=">>, <<"-", "=">>, <<"*", "=">>, <<"/", "=">>, <<"%", "=">>,
       <<"=", "=">>, <<"<", "=">>, <<">", "=">>, <<"!", "=">>, <<"&", "&">>,
       <<"|", "|">>,
       <<">", ">", "=">>, <<"<", "<", "=">>, <<"+", "+">>, <<"-", "-">> >>

operators_count == Len(operators)

punctuation == <<"(", ")", "{", "}", ",", ";", "[", "]", ".">>

operator_chars ==
    <<"+", "-", "*", "/", "%", "=", "<", ">", "!", "&", "|", "^", "~">>

\* is_in_keywords with a loop that stops one entry early.
is_in_keywords_missing_last(lex) ==
    \E i \in 1..(keywords_count - 1) : strcmp(keywords[i], lex) = 0

\* strcmp of lexeme against each entry of the keyword table.
is_in_keywords(lex) ==
    \E i \in 1..keywords_count : strcmp(keywords[i], lex) = 0

\* strcmp of op against each entry of the operator table.
is_in_operators(op) ==
    \E i \in 1..operators_count : strcmp(operators[i], op) = 0

\* The size limits of the lexeme, character-literal and string-literal
\* buffers (char[256], filled while the length is below 255).
LexemeMax == 255
ChrMax == 255
StrMax == 255

(***************************************************************************)
(* strtod                                                                  *)
(***************************************************************************)

\* The first position j >= i of s that holds no decimal digit.
DigitsEnd(s, i) ==
    IF i > Len(s) THEN i
    ELSE CHOOSE j \in i..(Len(s) + 1) :
            /\ ~is_digit(CharOf(s, j))
            /\ \A k \in i..(j - 1) : is_digit(s[k])

\* The first position j >= i of s that holds no hexadecimal digit.
XDigitsEnd(s, i) ==
    IF i > Len(s) THEN i
    ELSE CHOOSE j \in i..(Len(s) + 1) :
            /\ ~is_xdigit(CharOf(s, j))
            /\ \A k \in i..(j - 1) : is_xdigit(s[k])

\* The first position j >= i of s that holds no white space.
SpaceEnd(s, i) ==
    IF i > Len(s) THEN i
    ELSE CHOOSE j \in i..(Len(s) + 1) :
            /\ ~is_whitespace(CharOf(s, j))
            /\ \A k \in i..(j - 1) : is_whitespace(s[k])

\* strtod(s, &endptr): the number of characters of s the conversion
\* consumes, endptr - s (0 when there is no conversion).  The subject is
\* optional white space, an optional sign, then a decimal literal (digits
\* with an optional '.', an optional exponent e[+-]digits) or a hexadecimal
\* one (0x, hex digits with an optional '.', an optional exponent
\* p[+-]digits).  read_lexeme calls it only on a lexeme that starts with a
\* digit, so the inf/nan forms are left out.
strtod(s) ==
    LET ws == SpaceEnd(s, 1)
        sg == IF CharOf(s, ws) \in {"+", "-"} THEN ws + 1 ELSE ws
        \* decimal
        d1 == DigitsEnd(s, sg)
        d2 == IF CharOf(s, d1) = "." THEN DigitsEnd(s, d1 + 1) ELSE d1
        hasMant == d1 > sg \/ d2 > d1 + 1
        e0 == IF CharOf(s, d2 + 1) \in {"+", "-"} THEN d2 + 2 ELSE d2 + 1
        e1 == DigitsEnd(s, e0)
        decEnd == IF CharOf(s, d2) \in {"e", "E"} /\ e1 > e0 THEN e1 ELSE d2
        \* hexadecimal
        h0 == sg + 2
        h1 == XDigitsEnd(s, h0)
        h2 == IF CharOf(s, h1) = "." THEN XDigitsEnd(s, h1 + 1) ELSE h1
        isHex == /\ CharOf(s, sg) = "0"
                 /\ CharOf(s, sg + 1) \in {"x", "X"}
                 /\ (h1 > h0 \/ h2 > h1 + 1)
        p0 == IF CharOf(s, h2 + 1) \in {"+", "-"} THEN h2 + 2 ELSE h2 + 1
        p1 == DigitsEnd(s, p0)
        hexEnd == IF CharOf(s, h2) \in {"p", "P"} /\ p1 > p0 THEN p1 ELSE h2
    IN  IF isHex THEN hexEnd - 1
        ELSE IF hasMant THEN decEnd - 1
        ELSE 0

(***************************************************************************)
(* The source buffers scanned                                              *)
(***************************************************************************)

\* Bounds on the lengths of the source buffers of each family.
GenLen == 3
IdLen == 4
NumLen == 4
OpLen == 2
ComLen == 4
StrLen == 3
LongExtra == 1
SortLen == 3
LiveLen == 3

SeqsUpTo(S, n) == UNION {[1..k -> S] : k \in 0..n}

Rep(c, n) == [i \in 1..n |-> c]

\* One character of every class the driving loop tells apart.
GenInputs ==
    SeqsUpTo({"x", "1", "_", " ", "\n", "(", "=", "/", "*", "\"", "'", "#"},
             GenLen)

\* Identifiers, calls and white space.
IdInputs == SeqsUpTo({"x", "y", " ", "(", "\n"}, IdLen)

\* Numeric literals and what is near them.
NumInputs == SeqsUpTo({"0", "1", "e", ".", "+", "x"}, NumLen)

\* Runs of operator characters.
OpInputs ==
    SeqsUpTo({operator_chars[i] : i \in 1..Len(operator_chars)}, OpLen)

\* Comments.
ComInputs == SeqsUpTo({"/", "*", "\n", "x"}, ComLen)

\* String and character literals.
StrInputs == SeqsUpTo({"\"", "'", "a", "\\", "\n"}, StrLen)

\* Runs and literals around the buffer limits.
LongInputs ==
    { pre \o Rep("a", n) \o suf :
        n \in (LexemeMax - 2)..(LexemeMax + LongExtra),
        pre \in {<<>>, <<"1">>, <<"\"">>, <<"'">>},
        suf \in {<<>>, <<"#">>, <<"(">>, <<"\"">>, <<"'">>} }

\* Each keyword alone.
KeywordInputs == {keywords[i] : i \in 1..keywords_count}

\* The examples of the documentation.
ExampleInputs ==
    { <<"i", "n", "t", " ", "x", " ", "=", " ", "1", "0", ";">>,
      <<"/", "/", " ", "c", "o", "m", "m", "e", "n", "t", "\n",
        "i", "n", "t", " ", "y", ";">>,
      <<"a", " ", "=", "=", " ", "b">>,
      <<"\"", "h", "e", "l", "l", "o", "\"">>,
      <<"1", "a", "2", "b">>,
      <<"1", "a", "2", "b", " ", "1", "a", "2", "b">>,
      <<">", ">", "=">>,
      <<"<", "<", "=">>,
      <<"\"", "a", "\\", "\"", "b", "\"">>,
      <<"(", ")", "{", "}", ",", ";", "[", "]", ".">> }

\* The names of SortInputs: one is a prefix of another, one is upper case.
SortNames == {<<"a">>, <<"b">>, <<"B">>, <<"a", "b">>}

RECURSIVE Join(_)
\* The words of ws, each followed by a space.
Join(ws) == IF Len(ws) = 0 THEN <<>> ELSE ws[1] \o <<" ">> \o Join(Tail(ws))

\* Identifiers in every first-seen order, for the sort of the report.
SortInputs == {Join(ws) : ws \in SeqsUpTo(SortNames, SortLen)}

\* The buffers on which termination is verified: one character of every
\* class, with the openers of literals and comments.
LiveInputs ==
    SeqsUpTo({"x", "\n", "(", "/", "*", "\"", "'", "#"}, LiveLen)
        \cup { <<"/", "*">> \o body :
                  body \in SeqsUpTo({"x", "\n", "/", "*"}, LiveLen) }

Inputs ==
    GenInputs \cup IdInputs \cup NumInputs \cup OpInputs \cup ComInputs
        \cup SortInputs
        \cup StrInputs \cup LongInputs \cup KeywordInputs \cup ExampleInputs

(***************************************************************************)
(* State                                                                   *)
(***************************************************************************)

VARIABLES
    code,            \* the source buffer handed to tokenize
    current_pos,     \* la->current_pos
    line_no,         \* la->line_no
    tokens,          \* la->tokens[0 .. tokens_count-1]
    symbol_table,    \* la->symbol_table[0 .. symbol_table_count-1]
    lexical_errors,  \* la->lexical_errors[0 .. lexical_errors_count-1]
    pc,              \* the place of control in tokenize and its callees
    lexeme,          \* read_lexeme's buffer
    start_pos,       \* read_lexeme's start_pos
    str_val,         \* read_string's buffer
    chr,             \* read_character's buffer
    token,           \* tokenize's token, as read_lexeme returned it
    reads,           \* the indices of code read by the last step
    iter,            \* cursor and output sizes when the current (at the loop
                     \* head: the last) iteration of the driving loop began;
                     \* pos is -1 before the first iteration
    spans            \* the runs read_lexeme has consumed: [start, end)

vars ==
    <<code, current_pos, line_no, tokens, symbol_table, lexical_errors, pc,
      lexeme, start_pos, str_val, chr, token, reads, iter, spans>>

\* strlen(code)
len == Len(code)

\* code[i].  code[len] is the terminator that analyze stores; the scanner
\* reads no index outside 0..len-1 (ReadsInBounds).
At(i) == IF i >= 0 /\ i < len THEN code[i + 1] ELSE NUL

Token(type, value) == [type |-> type, value |-> value]

push_token(toks, tok) == Append(toks, tok)

\* push_symbol without its search for an equal entry.
push_symbol_no_check(table, identifier) == Append(table, identifier)

\* Append identifier unless an equal entry is there.
push_symbol(table, identifier) ==
    IF \E i \in 1..Len(table) : strcmp(table[i], identifier) = 0
    THEN table
    ELSE Append(table, identifier)

\* push_lexical_error with the search of push_symbol.
push_lexical_error_dedup(errors, error) ==
    IF \E i \in 1..Len(errors) : strcmp(errors[i], error) = 0
    THEN errors
    ELSE Append(errors, error)

\* Append error, whatever the list holds.
push_lexical_error(errors, error) == Append(errors, error)

\* What the driving loop remembers of the start of an iteration.
IterStart == [pos |-> current_pos, ntok |-> Len(tokens),
              nerr |-> Len(lexical_errors), nsym |-> Len(symbol_table),
              line |-> line_no]

(***************************************************************************)
(* peek_next_non_whitespace, read_operator, the classification of          *)
(* read_lexeme                                                             *)
(***************************************************************************)

\* From cursor cur: the next character that is no white space (NUL when
\* there is none) and the indices read to find it.
peek_next_non_whitespace(cur) ==
    LET p0 == cur + 1
        stop == IF p0 >= len THEN p0
                ELSE CHOOSE p \in p0..len :
                        /\ (p = len \/ ~is_whitespace(At(p)))
                        /\ \A k \in p0..(p - 1) : is_whitespace(At(k))
    IN  [ch    |-> IF stop < len THEN At(stop) ELSE NUL,
         reads |-> {k \in p0..stop : k < len}]

\* read_operator without the test of next_pos against len.
read_operator_unguarded(cur) ==
    LET next_pos == cur + 1
        potential_operator == <<At(cur), At(next_pos)>>
    IN  IF is_in_operators(potential_operator)
        THEN [value |-> potential_operator, pos |-> cur + 1,
              reads |-> {cur, next_pos}]
        ELSE [value |-> <<At(cur)>>, pos |-> cur, reads |-> {cur, next_pos}]

\* read_operator without the step onto the second character.
read_operator_no_advance(cur) ==
    LET next_pos == cur + 1
        potential_operator == <<At(cur), At(next_pos)>>
    IN  IF next_pos < len /\ is_in_operators(potential_operator)
        THEN [value |-> potential_operator, pos |-> cur,
              reads |-> {cur, next_pos}]
        ELSE [value |-> <<At(cur)>>, pos |-> cur,
              reads |-> {cur} \cup
                        (IF next_pos < len THEN {next_pos} ELSE {})]

\* From cursor cur: the operator text, the cursor read_operator leaves (on
\* the last character of the operator) and the indices read.
read_operator(cur) ==
    LET next_pos == cur + 1
        potential_operator == <<At(cur), At(next_pos)>>
    IN  IF next_pos < len
        THEN IF is_in_operators(potential_operator)
             THEN [value |-> potential_operator, pos |-> cur + 1,
                   reads |-> {cur, next_pos}]
             ELSE [value |-> <<At(cur)>>, pos |-> cur,
                   reads |-> {cur, next_pos}]
        ELSE [value |-> <<At(cur)>>, pos |-> cur, reads |-> {cur}]

\* Every character of lex after the first is a letter, a digit or '_'.
valid_tail(lex) ==
    \A i \in 2..Len(lex) :
        is_letter(lex[i]) \/ is_digit(lex[i]) \/ lex[i] = "_"

\* read_lexeme after its loop, with the cursor backed off to cur: the token
\* (type "" for none), whether the lexeme goes to the symbol table or to
\* the error list, and the indices read by the peek.
classify(lex, cur) ==
    LET none == [type |-> "", value |-> <<>>, symbol |-> FALSE,
                 error |-> FALSE, reads |-> {}]
    IN  IF is_in_keywords(lex)
        THEN [none EXCEPT !.type = "Keyword", !.value = lex]
        ELSE IF Len(lex) > 0
        THEN IF (is_letter(lex[1]) \/ lex[1] = "_") /\ valid_tail(lex)
             THEN LET next_char == peek_next_non_whitespace(cur)
                  IN  [none EXCEPT !.type = "Identifier", !.value = lex,
                                   !.symbol = (next_char.ch # "("),
                                   !.reads = next_char.reads]
             ELSE IF is_digit(lex[1]) /\ strtod(lex) = Len(lex)
             THEN [none EXCEPT !.type = "Constant", !.value = lex]
             ELSE [none EXCEPT !.error = TRUE]
        ELSE none

\* The branch of the driving loop taken at cursor p (p < len).
tokenize_branch(p) ==
    LET ch == At(p)
    IN  IF is_whitespace(ch) THEN "whitespace"
        ELSE IF ch = "/" /\ p + 1 < len
                /\ (At(p + 1) = "/" \/ At(p + 1) = "*") THEN "comment"
        ELSE IF is_letter(ch) \/ ch = "_" \/ is_digit(ch) THEN "lexeme"
        ELSE IF ch = "\"" THEN "string"
        ELSE IF ch = "'" THEN "character"
        ELSE IF strchr(operator_chars, ch) THEN "operator"
        ELSE IF strchr(punctuation, ch) THEN "punctuation"
        ELSE "other"

\* The indices the driving loop reads to choose the branch at cursor p.
tokenize_reads(p) ==
    {p} \cup (IF At(p) = "/" /\ p + 1 < len THEN {p + 1} ELSE {})

(***************************************************************************)
(* Initial state: init_lexical_analyzer has run and analyze has loaded a   *)
(* source buffer.                                                          *)
(***************************************************************************)

InitWith(inputs) ==
    /\ code \in inputs
    /\ current_pos = 0
    /\ line_no = 1
    /\ tokens = <<>>
    /\ symbol_table = <<>>
    /\ lexical_errors = <<>>
    /\ pc = "start"
    /\ lexeme = <<>>
    /\ start_pos = 0
    /\ str_val = <<>>
    /\ chr = <<>>
    /\ reads = {}
    /\ token = Token("", <<>>)
    /\ iter = [pos |-> -1, ntok |-> 0, nerr |-> 0, nsym |-> 0, line |-> 1]
    /\ spans = <<>>

Init == InitWith(Inputs)

\* The same, on the buffers on which termination is verified.
LiveInit == InitWith(LiveInputs)

(***************************************************************************)
(* tokenize                                                                *)
(***************************************************************************)

\* Entry of tokenize: the resets before the loop.
TokenizeEnter ==
    /\ pc = "start"
    /\ tokens' = <<>>
    /\ current_pos' = 0
    /\ pc' = "loop"
    /\ reads' = {}
    /\ UNCHANGED <<code, token, line_no, symbol_table, lexical_errors, lexeme,
                   start_pos, str_val, chr, iter, spans>>

\* The loop test fails: tokenize returns.
TokenizeExit ==
    /\ pc = "loop"
    /\ ~(current_pos < len)
    /\ pc' = "tokenized"
    /\ reads' = {}
    /\ UNCHANGED <<code, token, current_pos, line_no, tokens, symbol_table,
                   lexical_errors, lexeme, start_pos, str_val, chr, iter,
                   spans>>

\* White space: count a newline, step over the character, continue.
Whitespace ==
    /\ pc = "loop"
    /\ current_pos < len
    /\ tokenize_branch(current_pos) = "whitespace"
    /\ iter' = IterStart
    /\ reads' = {current_pos}
    /\ line_no' = IF At(current_pos) = "\n" THEN line_no + 1 ELSE line_no
    /\ current_pos' = current_pos + 1
    /\ UNCHANGED <<code, token, tokens, symbol_table, lexical_errors, pc, lexeme,
                   start_pos, str_val, chr, spans>>

\* A comment opener: the call of skip_comment and its own two tests.
Comment ==
    /\ pc = "loop"
    /\ current_pos < len
    /\ tokenize_branch(current_pos) = "comment"
    /\ iter' = IterStart
    /\ reads' = tokenize_reads(current_pos) \cup
                (IF current_pos + 1 < len
                 THEN {current_pos, current_pos + 1} ELSE {})
    /\ IF current_pos + 1 < len /\ At(current_pos) = "/"
          /\ At(current_pos + 1) = "/"
       THEN pc' = "skip_line" /\ current_pos' = current_pos
       ELSE IF current_pos + 1 < len /\ At(current_pos) = "/"
               /\ At(current_pos + 1) = "*"
       THEN pc' = "skip_block" /\ current_pos' = current_pos + 2
       ELSE pc' = "skipped" /\ current_pos' = current_pos
    /\ UNCHANGED <<code, token, line_no, tokens, symbol_table, lexical_errors,
                   lexeme, start_pos, str_val, chr, spans>>

\* skip_comment, line comment: one turn of the loop.
SkipLineStep ==
    /\ pc = "skip_line"
    /\ current_pos < len
    /\ At(current_pos) # "\n"
    /\ reads' = {current_pos}
    /\ current_pos' = current_pos + 1
    /\ UNCHANGED <<code, token, line_no, tokens, symbol_table, lexical_errors, pc,
                   lexeme, start_pos, str_val, chr, iter, spans>>

\* skip_comment, line comment: the loop ends at a newline or at the end.
SkipLineEnd ==
    /\ pc = "skip_line"
    /\ ~(current_pos < len /\ At(current_pos) # "\n")
    /\ reads' = IF current_pos < len THEN {current_pos} ELSE {}
    /\ pc' = "skipped"
    /\ UNCHANGED <<code, token, current_pos, line_no, tokens, symbol_table,
                   lexical_errors, lexeme, start_pos, str_val, chr, iter,
                   spans>>

\* skip_comment, block comment: one turn of the loop (with its break).
SkipBlockStep ==
    /\ pc = "skip_block"
    /\ current_pos < len - 1
    /\ reads' = {current_pos} \cup
                (IF At(current_pos) = "*" THEN {current_pos + 1} ELSE {})
    /\ line_no' = IF At(current_pos) = "\n" THEN line_no + 1 ELSE line_no
    /\ IF At(current_pos) = "*" /\ At(current_pos + 1) = "/"
       THEN pc' = "skipped"
       ELSE pc' = "skip_block"
    /\ current_pos' = current_pos + 1
    /\ UNCHANGED <<code, token, tokens, symbol_table, lexical_errors, lexeme,
                   start_pos, str_val, chr, iter, spans>>

\* skip_comment, block comment: the loop test fails.
SkipBlockEnd ==
    /\ pc = "skip_block"
    /\ ~(current_pos < len - 1)
    /\ reads' = {}
    /\ pc' = "skipped"
    /\ UNCHANGED <<code, token, current_pos, line_no, tokens, symbol_table,
                   lexical_errors, lexeme, start_pos, str_val, chr, iter,
                   spans>>

\* The return from skip_comment without the step of the driving loop.
CommentAdvance_no_step ==
    /\ pc = "skipped"
    /\ pc' = "loop"
    /\ reads' = {}
    /\ UNCHANGED <<code, token, current_pos, line_no, tokens, symbol_table,
                   lexical_errors, lexeme, start_pos, str_val, chr, iter,
                   spans>>

\* Back in tokenize after skip_comment: step and continue.
CommentAdvance ==
    /\ pc = "skipped"
    /\ current_pos' = current_pos + 1
    /\ pc' = "loop"
    /\ reads' = {}
    /\ UNCHANGED <<code, token, line_no, tokens, symbol_table, lexical_errors,
                   lexeme, start_pos, str_val, chr, iter, spans>>

(***************************************************************************)
(* read_lexeme                                                             *)
(***************************************************************************)

\* The test of read_lexeme's loop at cursor p.
lexeme_continues(p) ==
    /\ p < len
    /\ ~is_whitespace(At(p))
    /\ ~strchr(operator_chars, At(p))
    /\ ~strchr(punctuation, At(p))

\* lexeme_store without the test of the room left.
lexeme_store_unbounded(lex, ch) == Append(lex, ch)

\* The body of read_lexeme's loop: keep ch while the buffer has room.
lexeme_store(lex, ch) ==
    IF Len(lex) < LexemeMax THEN Append(lex, ch) ELSE lex

\* The driving loop calls read_lexeme.
LexemeBegin ==
    /\ pc = "loop"
    /\ current_pos < len
    /\ tokenize_branch(current_pos) = "lexeme"
    /\ iter' = IterStart
    /\ reads' = tokenize_reads(current_pos)
    /\ lexeme' = <<>>
    /\ start_pos' = current_pos
    /\ pc' = "read_lexeme"
    /\ UNCHANGED <<code, token, current_pos, line_no, tokens, symbol_table,
                   lexical_errors, str_val, chr, spans>>

\* One turn of read_lexeme's loop.
LexemeStep ==
    /\ pc = "read_lexeme"
    /\ lexeme_continues(current_pos)
    /\ reads' = {current_pos}
    /\ lexeme' = lexeme_store(lexeme, At(current_pos))
    /\ current_pos' = current_pos + 1
    /\ UNCHANGED <<code, token, line_no, tokens, symbol_table, lexical_errors, pc,
                   start_pos, str_val, chr, iter, spans>>

\* The loop of read_lexeme ends: back off by one, classify, push the
\* symbol or the error, and return the token to tokenize.
LexemeEnd ==
    /\ pc = "read_lexeme"
    /\ ~lexeme_continues(current_pos)
    /\ LET cur == current_pos - 1
           r == classify(lexeme, cur)
       IN  /\ current_pos' = cur
           /\ reads' = (IF current_pos < len THEN {current_pos} ELSE {})
                       \cup r.reads
           /\ symbol_table' = IF r.symbol
                              THEN push_symbol(symbol_table, lexeme)
                              ELSE symbol_table
           /\ lexical_errors' = IF r.error
                                THEN push_lexical_error(lexical_errors, lexeme)
                                ELSE lexical_errors
           /\ token' = Token(r.type, r.value)
    /\ spans' = Append(spans, [start |-> start_pos, end |-> current_pos])
    /\ pc' = "lexeme_token"
    /\ UNCHANGED <<code, line_no, tokens, lexeme, start_pos, str_val, chr,
                   iter>>

\* tokenize dropping the token read_lexeme returned.
LexemeToken_drops ==
    /\ pc = "lexeme_token"
    /\ pc' = "advance"
    /\ reads' = {}
    /\ UNCHANGED <<code, token, current_pos, line_no, tokens, symbol_table,
                   lexical_errors, lexeme, start_pos, str_val, chr, iter,
                   spans>>

\* Back in tokenize: the token read_lexeme returned is pushed when its type
\* is not empty.
LexemeToken ==
    /\ pc = "lexeme_token"
    /\ tokens' = IF Len(token.type) > 0
                 THEN push_token(tokens, token)
                 ELSE tokens
    /\ pc' = "advance"
    /\ reads' = {}
    /\ UNCHANGED <<code, token, current_pos, line_no, symbol_table,
                   lexical_errors, lexeme, start_pos, str_val, chr, iter,
                   spans>>

(***************************************************************************)
(* read_string and read_character                                          *)
(***************************************************************************)

\* str_store with a limit one lower.
str_store_short(buf, ch) ==
    IF Len(buf) < StrMax - 1 THEN Append(buf, ch) ELSE buf

\* The body of read_string's loop: keep ch while the buffer has room.
str_store(buf, ch) ==
    IF Len(buf) < StrMax THEN Append(buf, ch) ELSE buf

\* The body of read_character's loop: keep ch while the buffer has room.
chr_store(buf, ch) ==
    IF Len(buf) < ChrMax THEN Append(buf, ch) ELSE buf

\* The driving loop calls read_string: the opening quote is stored and
\* stepped over.
StringBegin ==
    /\ pc = "loop"
    /\ current_pos < len
    /\ tokenize_branch(current_pos) = "string"
    /\ iter' = IterStart
    /\ reads' = tokenize_reads(current_pos)
    /\ str_val' = <<"\"">>
    /\ current_pos' = current_pos + 1
    /\ pc' = "read_string"
    /\ UNCHANGED <<code, token, line_no, tokens, symbol_table, lexical_errors,
                   lexeme, start_pos, chr, spans>>

\* StringStep taking a backslash and the character after it together.
StringStep_escapes ==
    /\ pc = "read_string"
    /\ current_pos < len
    /\ reads' = {current_pos}
    /\ LET ch == At(current_pos)
           esc == ch = "\\" /\ current_pos + 1 < len
           buf == IF esc
                  THEN str_store(str_store(str_val, ch), At(current_pos + 1))
                  ELSE str_store(str_val, ch)
       IN  /\ str_val' = buf
           /\ IF ch = "\""
              THEN /\ tokens' = push_token(tokens, Token("String", buf))
                   /\ current_pos' = current_pos
                   /\ pc' = "advance"
              ELSE /\ tokens' = tokens
                   /\ current_pos' = current_pos + (IF esc THEN 2 ELSE 1)
                   /\ pc' = "read_string"
    /\ UNCHANGED <<code, token, line_no, symbol_table, lexical_errors, lexeme,
                   start_pos, chr, iter, spans>>

\* One turn of read_string's loop; at the closing quote it breaks and the
\* token is pushed with the cursor on the quote.
StringStep ==
    /\ pc = "read_string"
    /\ current_pos < len
    /\ reads' = {current_pos}
    /\ LET ch == At(current_pos)
           buf == str_store(str_val, ch)
       IN  /\ str_val' = buf
           /\ IF ch = "\""
              THEN /\ tokens' = push_token(tokens, Token("String", buf))
                   /\ current_pos' = current_pos
                   /\ pc' = "advance"
              ELSE /\ tokens' = tokens
                   /\ current_pos' = current_pos + 1
                   /\ pc' = "read_string"
    /\ UNCHANGED <<code, token, line_no, symbol_table, lexical_errors, lexeme,
                   start_pos, chr, iter, spans>>

\* read_string's loop runs off the end of the input.
StringEnd ==
    /\ pc = "read_string"
    /\ ~(current_pos < len)
    /\ reads' = {}
    /\ tokens' = push_token(tokens, Token("String", str_val))
    /\ pc' = "advance"
    /\ UNCHANGED <<code, token, current_pos, line_no, symbol_table, lexical_errors,
                   lexeme, start_pos, str_val, chr, iter, spans>>

\* The driving loop calls read_character.
CharacterBegin ==
    /\ pc = "loop"
    /\ current_pos < len
    /\ tokenize_branch(current_pos) = "character"
    /\ iter' = IterStart
    /\ reads' = tokenize_reads(current_pos)
    /\ chr' = <<"'">>
    /\ current_pos' = current_pos + 1
    /\ pc' = "read_character"
    /\ UNCHANGED <<code, token, line_no, tokens, symbol_table, lexical_errors,
                   lexeme, start_pos, str_val, spans>>

\* One turn of read_character's loop, with its break.
CharacterStep ==
    /\ pc = "read_character"
    /\ current_pos < len
    /\ reads' = {current_pos}
    /\ LET current_char == At(current_pos)
           buf == chr_store(chr, current_char)
       IN  /\ chr' = buf
           /\ IF current_char = "'"
              THEN /\ tokens' = push_token(tokens, Token("String", buf))
                   /\ current_pos' = current_pos
                   /\ pc' = "advance"
              ELSE /\ tokens' = tokens
                   /\ current_pos' = current_pos + 1
                   /\ pc' = "read_character"
    /\ UNCHANGED <<code, token, line_no, symbol_table, lexical_errors, lexeme,
                   start_pos, str_val, iter, spans>>

\* CharacterEnd logging the literal without its closing quote as an error.
CharacterEnd_reports_error ==
    /\ pc = "read_character"
    /\ ~(current_pos < len)
    /\ reads' = {}
    /\ tokens' = push_token(tokens, Token("String", chr))
    /\ lexical_errors' = push_lexical_error(lexical_errors, chr)
    /\ pc' = "advance"
    /\ UNCHANGED <<code, token, current_pos, line_no, symbol_table, lexeme,
                   start_pos, str_val, chr, iter, spans>>

\* read_character's loop runs off the end of the input.
CharacterEnd ==
    /\ pc = "read_character"
    /\ ~(current_pos < len)
    /\ reads' = {}
    /\ tokens' = push_token(tokens, Token("String", chr))
    /\ pc' = "advance"
    /\ UNCHANGED <<code, token, current_pos, line_no, symbol_table, lexical_errors,
                   lexeme, start_pos, str_val, chr, iter, spans>>

(***************************************************************************)
(* Operators, punctuation, other characters, the end of an iteration       *)
(***************************************************************************)

Operator ==
    /\ pc = "loop"
    /\ current_pos < len
    /\ tokenize_branch(current_pos) = "operator"
    /\ iter' = IterStart
    /\ LET r == read_operator(current_pos)
       IN  /\ reads' = tokenize_reads(current_pos) \cup r.reads
           /\ tokens' = push_token(tokens, Token("Operator", r.value))
           /\ current_pos' = r.pos
    /\ pc' = "advance"
    /\ UNCHANGED <<code, token, line_no, symbol_table, lexical_errors, lexeme,
                   start_pos, str_val, chr, spans>>

Punctuation ==
    /\ pc = "loop"
    /\ current_pos < len
    /\ tokenize_branch(current_pos) = "punctuation"
    /\ iter' = IterStart
    /\ reads' = tokenize_reads(current_pos)
    /\ tokens' = push_token(tokens, Token("Punctuation", <<At(current_pos)>>))
    /\ pc' = "advance"
    /\ UNCHANGED <<code, token, current_pos, line_no, symbol_table, lexical_errors,
                   lexeme, start_pos, str_val, chr, spans>>

\* A character of no class: no branch of the chain is taken.
Other ==
    /\ pc = "loop"
    /\ current_pos < len
    /\ tokenize_branch(current_pos) = "other"
    /\ iter' = IterStart
    /\ reads' = tokenize_reads(current_pos)
    /\ pc' = "advance"
    /\ UNCHANGED <<code, token, current_pos, line_no, tokens, symbol_table,
                   lexical_errors, lexeme, start_pos, str_val, chr, spans>>

\* The end of an iteration without the increment.
Advance_missing_increment ==
    /\ pc = "advance"
    /\ pc' = "loop"
    /\ reads' = {}
    /\ UNCHANGED <<code, token, current_pos, line_no, tokens, symbol_table,
                   lexical_errors, lexeme, start_pos, str_val, chr, iter,
                   spans>>

\* The increment that ends an iteration of the driving loop.
Advance ==
    /\ pc = "advance"
    /\ current_pos' = current_pos + 1
    /\ pc' = "loop"
    /\ reads' = {}
    /\ UNCHANGED <<code, token, line_no, tokens, symbol_table, lexical_errors,
                   lexeme, start_pos, str_val, chr, iter, spans>>

(***************************************************************************)
(* analyze: the sort of the symbol table before it is printed              *)
(***************************************************************************)

swap(t, i, j) == [t EXCEPT ![i] = t[j], ![j] = t[i]]

RECURSIVE sort_inner(_, _, _)
\* The inner loop, from j on, for position i.
sort_inner(t, i, j) ==
    IF j > Len(t) THEN t
    ELSE sort_inner(IF strcmp(t[i], t[j]) > 0 THEN swap(t, i, j) ELSE t,
                    i, j + 1)

RECURSIVE sort_outer_short(_, _)
\* The outer loop stopping one position early.
sort_outer_short(t, i) ==
    IF i > Len(t) - 2 THEN t
    ELSE sort_outer_short(sort_inner(t, i, i + 1), i + 1)

RECURSIVE sort_outer(_, _)
\* The outer loop, from i on.
sort_outer(t, i) ==
    IF i > Len(t) - 1 THEN t
    ELSE sort_outer(sort_inner(t, i, i + 1), i + 1)

Report ==
    /\ pc = "tokenized"
    /\ symbol_table' = sort_outer(symbol_table, 1)
    /\ pc' = "done"
    /\ reads' = {}
    /\ UNCHANGED <<code, token, current_pos, line_no, tokens, lexical_errors,
                   lexeme, start_pos, str_val, chr, iter, spans>>

(***************************************************************************)
(* Specifications                                                          *)
(***************************************************************************)

Next ==
    \/ TokenizeEnter
    \/ TokenizeExit
    \/ Whitespace
    \/ Comment
    \/ SkipLineStep
    \/ SkipLineEnd
    \/ SkipBlockStep
    \/ SkipBlockEnd
    \/ CommentAdvance
    \/ LexemeBegin
    \/ LexemeStep
    \/ LexemeEnd
    \/ LexemeToken
    \/ StringBegin
    \/ StringStep
    \/ StringEnd
    \/ CharacterBegin
    \/ CharacterStep
    \/ CharacterEnd
    \/ Operator
    \/ Punctuation
    \/ Other
    \/ Advance
    \/ Report

Spec == Init /\ [][Next]_vars

\* The program is sequential and runs until main returns: a step that can
\* be taken is taken.
FairSpec == LiveInit /\ [][Next]_vars /\ WF_vars(Next)

(***************************************************************************)
(* Vocabulary of the properties, stated on the source text                 *)
(***************************************************************************)

\* tokenize has returned.
Scanned == pc \in {"tokenized", "done"}

\* The driving loop is at its head after an iteration that began at iter.pos.
AfterIteration == pc = "loop" /\ iter.pos >= 0

WhitespaceChars == {" ", "\t", "\n", "\r"}

OperatorChars == {"+", "-", "*", "/", "%", "=", "<", ">", "!", "&", "|", "^", "~"}

PunctuationChars == {"(", ")", "{", "}", ",", ";", "[", "]", "."}

IsDelimiter(c) ==
    c \in WhitespaceChars \cup OperatorChars \cup PunctuationChars

TwoCharOperators ==
    { <<"+", "=">>, <<"-", "=">>, <<"*", "=">>, <<"/", "=">>, <<"%", "=">>,
      <<"=", "=">>, <<"<", "=">>, <<">", "=">>, <<"!", "=">>, <<"&", "&">>,
      <<"|", "|">>, <<"+", "+">>, <<"-", "-">> }

IsAsciiLetter(c) ==
    (Ord(c) >= 65 /\ Ord(c) <= 90) \/ (Ord(c) >= 97 /\ Ord(c) <= 122)

IsAsciiDigit(c) == c \in {"0", "1", "2", "3", "4", "5", "6", "7", "8", "9"}

\* s matches [A-Za-z_][A-Za-z0-9_]*
IsIdentifier(s) ==
    /\ Len(s) > 0
    /\ IsAsciiLetter(s[1]) \/ s[1] = "_"
    /\ \A i \in 2..Len(s) :
          IsAsciiLetter(s[i]) \/ IsAsciiDigit(s[i]) \/ s[i] = "_"

IsKeyword(s) == s \in KeywordInputs

\* The text of the source from index from up to, not including, index to.
Text(from, to) == SubSeq(code, from + 1, to)

\* The run of a span of read_lexeme.
Run(sp) == Text(sp.start, sp.end)

\* The first character at or after index e that is no white space is '('.
FollowedByParen(e) ==
    \E j \in e..(len - 1) :
        /\ At(j) = "("
        /\ \A k \in e..(j - 1) : At(k) \in WhitespaceChars

\* The number of entries of table equal to x.
Count(table, x) == Cardinality({i \in 1..Len(table) : table[i] = x})

\* The end of the maximal run of non-delimiters that starts at index p.
MaxRunEnd(p) ==
    CHOOSE e \in p..len :
        /\ (e = len \/ IsDelimiter(At(e)))
        /\ \A k \in p..(e - 1) : ~IsDelimiter(At(k))

\* s[i..j] is a non-empty run of digits.
AllDigits(s, i, j) == i <= j /\ j <= Len(s) /\ \A k \in i..j : IsAsciiDigit(s[k])

\* s from position i to its end is an exponent: e or E, an optional sign,
\* digits.
IsExponent(s, i) ==
    /\ CharOf(s, i) \in {"e", "E"}
    /\ \/ AllDigits(s, i + 1, Len(s))
       \/ (CharOf(s, i + 1) \in {"+", "-"} /\ AllDigits(s, i + 2, Len(s)))

\* s is digits, then optionally '.' and digits, then optionally an exponent.
WellFormedLiteral(s) ==
    \E a \in 1..Len(s) :
        /\ AllDigits(s, 1, a)
        /\ \/ a = Len(s)
           \/ IsExponent(s, a + 1)
           \/ /\ CharOf(s, a + 1) = "."
              /\ \E b \in (a + 2)..Len(s) :
                    /\ AllDigits(s, a + 2, b)
                    /\ (b = Len(s) \/ IsExponent(s, b + 1))

\* The index of the first character c after index p (len when none).
NextIndexOf(c, p) ==
    CHOOSE q \in (p + 1)..len :
        /\ (q = len \/ At(q) = c)
        /\ \A k \in (p + 1)..(q - 1) : At(k) # c

(***************************************************************************)
(* Properties                                                              *)
(***************************************************************************)

\* C1: for every source buffer tokenize terminates: the driving loop
\* eventually reaches the state where the cursor is no longer below the
\* input length and tokenize returns.
TokenizeTerminates == <>(pc = "tokenized" /\ ~(current_pos < len))

\* tokenize has returned on an input that ends inside a string literal.
TerminatesOnUnterminatedString ==
    /\ pc = "tokenized"
    /\ len >= 2
    /\ At(0) = "\""
    /\ \A i \in 1..(len - 1) : At(i) # "\""

\* C2: when tokenize returns the cursor is exactly equal to the input
\* length, not greater.
CursorEndsAtLength == pc = "tokenized" => current_pos = len

\* C3: every read of the source is at an index i with 0 <= i < input
\* length, also in the steps where the cursor has moved to or past the
\* input length.
ReadsInBounds == \A i \in reads : 0 <= i /\ i < len

\* A step has read the source and left the cursor at the input length.
ReadWithCursorAtEnd == reads # {} /\ current_pos >= len

\* C4: an identifier that occurs somewhere followed by '(' (after white
\* space) is not in the symbol table at the end of the scan, whatever its
\* other occurrences.
CalledIdentifierNotInTable ==
    Scanned =>
        \A i \in 1..Len(spans) :
            (/\ IsIdentifier(Run(spans[i]))
             /\ ~IsKeyword(Run(spans[i]))
             /\ FollowedByParen(spans[i].end))
            => Count(symbol_table, Run(spans[i])) = 0

\* C5: a well-formed integer or floating-point literal scanned as the
\* input gives exactly one token, of kind Constant, with the whole literal
\* as its text, and no error.
LiteralIsOneConstant ==
    (Scanned /\ WellFormedLiteral(code)) =>
        /\ tokens = <<Token("Constant", code)>>
        /\ lexical_errors = <<>>

\* The symbol table holds no two equal entries.
NoDuplicateSymbols ==
    \A i, j \in 1..Len(symbol_table) :
        i # j => symbol_table[i] # symbol_table[j]

\* The run of span sp is an identifier, no keyword, and none of its
\* occurrences is followed by '('.
PlainIdentifier(sp) ==
    /\ IsIdentifier(Run(sp))
    /\ ~IsKeyword(Run(sp))
    /\ \A j \in 1..Len(spans) :
          Run(spans[j]) = Run(sp) => ~FollowedByParen(spans[j].end)

\* C6, as stated: every identifier that is no keyword and is nowhere
\* followed by '(' is in the symbol table exactly once at the end of the
\* scan, and the symbol table never holds two equal entries.
IdentifierOnceInTable ==
    /\ NoDuplicateSymbols
    /\ Scanned =>
          \A i \in 1..Len(spans) :
              PlainIdentifier(spans[i])
              => Count(symbol_table, Run(spans[i])) = 1

\* C6, amended: the same for every such identifier of at most LexemeMax
\* characters.
ShortIdentifierOnceInTable ==
    /\ NoDuplicateSymbols
    /\ Scanned =>
          \A i \in 1..Len(spans) :
              (PlainIdentifier(spans[i]) /\ Len(Run(spans[i])) <= LexemeMax)
              => Count(symbol_table, Run(spans[i])) = 1

\* The scan is over and a plain identifier that occurred twice is in the
\* symbol table once.
RepeatedIdentifierOnce ==
    /\ Scanned
    /\ \E i, j \in 1..Len(spans) :
          /\ i # j
          /\ Run(spans[i]) = Run(spans[j])
          /\ PlainIdentifier(spans[i])
          /\ Count(symbol_table, Run(spans[i])) = 1

\* C7: each of the 32 keywords, scanned alone, gives exactly one token, of
\* kind Keyword with the keyword as its text, an empty symbol table and an
\* empty error list.
KeywordAlone ==
    /\ Cardinality(KeywordInputs) = 32
    /\ (Scanned /\ IsKeyword(code)) =>
          /\ tokens = <<Token("Keyword", code)>>
          /\ symbol_table = <<>>
          /\ lexical_errors = <<>>

\* The scan of the last keyword of the table is over.
KeywordScanned ==
    /\ Scanned
    /\ code = <<"w", "h", "i", "l", "e">>
    /\ Len(tokens) = 1

\* The run that starts where the last iteration began.
IterRun == Text(iter.pos, MaxRunEnd(iter.pos))

\* The last iteration read a run that is no keyword, no identifier and no
\* number that strtod parses to its end.
AfterInvalidRun ==
    /\ AfterIteration
    /\ IsAsciiLetter(At(iter.pos)) \/ IsAsciiDigit(At(iter.pos))
          \/ At(iter.pos) = "_"
    /\ ~IsKeyword(IterRun)
    /\ ~IsIdentifier(IterRun)
    /\ ~(IsAsciiDigit(At(iter.pos)) /\ strtod(IterRun) = Len(IterRun))

\* What C8 says of an invalid run: no token, one more error entry, equal
\* to the run, and the cursor right after the run.
InvalidRunLogged ==
    /\ Len(tokens) = iter.ntok
    /\ Len(lexical_errors) = iter.nerr + 1
    /\ lexical_errors[Len(lexical_errors)] = IterRun
    /\ current_pos = MaxRunEnd(iter.pos)

\* C8, as stated: every occurrence of an invalid run gives no token and
\* one error entry equal to the run, and the scan goes on right after it.
InvalidRunRecorded == AfterInvalidRun => InvalidRunLogged

\* C8, amended: the same for every invalid run of at most LexemeMax
\* characters.
ShortInvalidRunRecorded ==
    (AfterInvalidRun /\ Len(IterRun) <= LexemeMax) => InvalidRunLogged

\* The second occurrence of an invalid run has been logged again.
InvalidRunRepeated ==
    /\ AfterInvalidRun
    /\ iter.nerr >= 1
    /\ lexical_errors[iter.nerr] = IterRun
    /\ InvalidRunLogged

\* The iteration began at an operator character that opens no comment.
AfterOperator ==
    /\ AfterIteration
    /\ At(iter.pos) \in OperatorChars
    /\ ~(At(iter.pos) = "/" /\ At(iter.pos + 1) \in {"/", "*"})

\* C9: at an operator character that opens no comment, when it and the
\* next character form a two-character operator, one Operator token with
\* that text is emitted and the scan resumes two characters further;
\* otherwise one single-character Operator token is emitted.
OperatorMaximalMunch ==
    AfterOperator =>
        LET p == iter.pos
            two == <<At(p), At(p + 1)>>
        IN  /\ Len(tokens) = iter.ntok + 1
            /\ IF p + 1 < len /\ two \in TwoCharOperators
               THEN /\ tokens[Len(tokens)] = Token("Operator", two)
                    /\ current_pos = p + 2
               ELSE /\ tokens[Len(tokens)] = Token("Operator", <<At(p)>>)
                    /\ current_pos = p + 1

\* In "a == b" the == has been read as one token.
EqualsEqualsIsOneToken ==
    /\ AfterOperator
    /\ code = <<"a", " ", "=", "=", " ", "b">>
    /\ iter.pos = 2
    /\ tokens = <<Token("Identifier", <<"a">>),
                  Token("Operator", <<"=", "=">>)>>
    /\ current_pos = 4

\* The iteration began at quote character q, the literal is closed by the
\* next q, and its length is at most max.
AfterTerminatedLiteral(q, max) ==
    /\ AfterIteration
    /\ At(iter.pos) = q
    /\ NextIndexOf(q, iter.pos) < len
    /\ NextIndexOf(q, iter.pos) - iter.pos + 1 <= max

\* One String token with the literal, quotes included, has been emitted
\* and the cursor is right after the closing quote q.
LiteralEmitted(q) ==
    LET close == NextIndexOf(q, iter.pos)
    IN  /\ Len(tokens) = iter.ntok + 1
        /\ tokens[Len(tokens)] = Token("String", Text(iter.pos, close + 1))
        /\ current_pos = close + 1

\* C10: a terminated string literal of at most the maximum length gives
\* exactly one String token whose text is the whole literal with both
\* quotes, and the scan resumes right after the closing quote; a character
\* literal behaves the same and is of kind String too.
TerminatedLiteralIsOneString ==
    /\ AfterTerminatedLiteral("\"", StrMax) => LiteralEmitted("\"")
    /\ AfterTerminatedLiteral("'", ChrMax) => LiteralEmitted("'")

\* A string literal of exactly the maximum length has been emitted whole.
LongestStringEmitted ==
    /\ AfterTerminatedLiteral("\"", StrMax)
    /\ NextIndexOf("\"", iter.pos) - iter.pos + 1 = StrMax
    /\ LiteralEmitted("\"")

\* The number of newline characters at the indices from up to, not
\* including, to.
NewlinesIn(from, to) ==
    Cardinality({k \in from..(to - 1) : At(k) = "\n"})

\* The first n characters of s, or s when it is shorter.
Prefix(s, n) == SubSeq(s, 1, IF Len(s) < n THEN Len(s) ELSE n)

\* The current or the last iteration began at the // of a line comment.
LineCommentIteration ==
    /\ iter.pos >= 0
    /\ At(iter.pos) = "/"
    /\ At(iter.pos + 1) = "/"

\* C11: from the // of a line comment to the next newline or the end of the
\* input nothing is added to the tokens, the symbol table or the error
\* list, the skip stops no later than that newline, and the driving loop
\* resumes at the character after it; "// comment\nint y;" gives exactly
\* Keyword int, Identifier y, Punctuation ;.
LineCommentIsSilent ==
    /\ LineCommentIteration =>
          /\ Len(tokens) = iter.ntok
          /\ Len(symbol_table) = iter.nsym
          /\ Len(lexical_errors) = iter.nerr
          /\ pc \in {"skip_line", "skipped"} =>
                current_pos <= NextIndexOf("\n", iter.pos)
          /\ pc \in {"loop", "tokenized", "done"} =>
                current_pos = NextIndexOf("\n", iter.pos) + 1
    /\ (Scanned /\ code = <<"/", "/", " ", "c", "o", "m", "m", "e", "n", "t",
                            "\n", "i", "n", "t", " ", "y", ";">>) =>
          tokens = <<Token("Keyword", <<"i", "n", "t">>),
                     Token("Identifier", <<"y">>),
                     Token("Punctuation", <<";">>)>>

\* The driving loop is back at its head right after the newline that ends
\* the comment of "// comment\nint y;", with nothing emitted.
ResumedAfterLineComment ==
    /\ pc = "loop"
    /\ LineCommentIteration
    /\ code = <<"/", "/", " ", "c", "o", "m", "m", "e", "n", "t", "\n",
                "i", "n", "t", " ", "y", ";">>
    /\ current_pos = 11
    /\ tokens = <<>>

\* a is not above b in the byte-wise lexicographic order.
LexLeq(a, b) ==
    \/ /\ Len(a) <= Len(b)
       /\ \A k \in 1..Len(a) : a[k] = b[k]
    \/ \E k \in 1..Len(a) :
          /\ k <= Len(b)
          /\ \A m \in 1..(k - 1) : a[m] = b[m]
          /\ Ord(a[k]) < Ord(b[k])

Sorted(t) == \A i \in 1..(Len(t) - 1) : LexLeq(t[i], t[i + 1])

Permutation(t, u) ==
    /\ Len(t) = Len(u)
    /\ \A i \in 1..Len(t) : Count(t, t[i]) = Count(u, t[i])

\* C12: the step that sorts the symbol table for the report leaves it in
\* non-decreasing byte-wise lexicographic order and a permutation of the
\* table before the sort, whatever the first-seen order was.
ReportSortsSymbolTable ==
    [][pc = "tokenized" =>
          /\ Sorted(symbol_table')
          /\ Permutation(symbol_table, symbol_table')]_vars

\* The report holds three symbols or more and the first one read is not
\* the first one of the sorted table: the sort has moved entries.
SortMovedEntries ==
    /\ pc = "done"
    /\ Len(symbol_table) >= 3
    /\ Len(spans) > 0
    /\ Run(spans[1]) # symbol_table[1]
    /\ Sorted(symbol_table)

\* Control is inside an iteration of the driving loop.
InIteration ==
    pc \in {"skip_line", "skip_block", "skipped", "read_lexeme",
            "lexeme_token", "read_string", "read_character", "advance"}

\* C13: when an iteration of the driving loop has ended the cursor is
\* strictly greater than at its start, and inside an iteration, the
\* back-off of read_lexeme included, it is never below that start.
CursorMonotonic ==
    iter.pos >= 0 =>
        /\ InIteration => current_pos >= iter.pos
        /\ ~InIteration => current_pos > iter.pos

\* read_lexeme has read a run of one character and backed off: the cursor
\* is back at the start of the iteration.
BackedOffToIterationStart ==
    /\ pc = "advance"
    /\ iter.pos >= 0
    /\ Len(spans) > 0
    /\ spans[Len(spans)] = [start |-> iter.pos, end |-> iter.pos + 1]
    /\ current_pos = iter.pos

\* The source is one of the two three-character shift assignments.
IsShiftAssign == code \in {<<">", ">", "=">>, <<"<", "<", "=">>}

\* C14 as stated: the scan of >>= and of <<= gives Operator tokens of
\* length 1 only.
ShiftAssignGivesSingleCharTokens ==
    (Scanned /\ IsShiftAssign) =>
        \A i \in 1..Len(tokens) :
            tokens[i].type = "Operator" /\ Len(tokens[i].value) = 1

\* C14: the scan of >>= and of <<= never holds a token of three
\* characters; the first character falls back to an Operator token of
\* length 1 and the two that follow are read as the two-character operator
\* >= or <=.
ShiftAssignGivesTwoTokens ==
    IsShiftAssign =>
        /\ \A i \in 1..Len(tokens) : Len(tokens[i].value) < 3
        /\ Scanned =>
              tokens = <<Token("Operator", <<code[1]>>),
                         Token("Operator", <<code[2], code[3]>>)>>

\* The scan of >>= is over with two tokens.
ShiftAssignScanned ==
    /\ Scanned
    /\ code = <<">", ">", "=">>
    /\ Len(tokens) = 2
    /\ tokens[2].value = <<">", "=">>

\* The last iteration began at quote character q and no q follows it.
AfterUnterminatedLiteral(q) ==
    /\ AfterIteration
    /\ At(iter.pos) = q
    /\ NextIndexOf(q, iter.pos) = len

\* C15: a string or character literal that is not closed gives exactly one
\* String token, the opening quote and the rest of the input cut to the
\* maximum length, takes the cursor to the end of the input and adds
\* nothing to the error list.
UnterminatedLiteralIsOneString ==
    \A q \in {"\"", "'"} :
        AfterUnterminatedLiteral(q) =>
            /\ Len(tokens) = iter.ntok + 1
            /\ tokens[Len(tokens)] =
                  Token("String", Prefix(Text(iter.pos, len), StrMax))
            /\ current_pos >= len
            /\ Len(lexical_errors) = iter.nerr
            /\ Len(symbol_table) = iter.nsym

\* A character literal that is not closed and is longer than the maximum
\* has been read: its token holds the first 255 characters.
LongUnterminatedCharacter ==
    /\ AfterUnterminatedLiteral("'")
    /\ len - iter.pos > ChrMax
    /\ Len(tokens[Len(tokens)].value) = ChrMax

\* skip_comment has returned from a block comment that began at iter.pos.
AfterBlockComment ==
    /\ pc = "skipped"
    /\ iter.pos >= 0
    /\ At(iter.pos) = "/"
    /\ At(iter.pos + 1) = "*"

\* The index of the '*' of the first closer after the opener at p, or len
\* when the comment is not closed.
BlockCloser(p) ==
    LET closers == {c \in (p + 2)..(len - 2) :
                       At(c) = "*" /\ At(c + 1) = "/"}
    IN  IF closers = {} THEN len
        ELSE CHOOSE c \in closers : \A d \in closers : c <= d

\* C16: skip_comment counts one line for every newline between the opener
\* of a block comment and its closer, or the end of the input when there is
\* no closer, and leaves the cursor on the '/' of the closer.
BlockCommentCountsNewlines ==
    AfterBlockComment =>
        LET c == BlockCloser(iter.pos)
        IN  /\ line_no = iter.line + NewlinesIn(iter.pos + 2, c)
            /\ c < len => current_pos = c + 1

\* No text that the scanner keeps is longer than the buffers hold.
NoTextAboveMax ==
    /\ \A i \in 1..Len(tokens) : Len(tokens[i].value) <= LexemeMax
    /\ \A i \in 1..Len(symbol_table) : Len(symbol_table[i]) <= LexemeMax
    /\ \A i \in 1..Len(lexical_errors) : Len(lexical_errors[i]) <= LexemeMax

\* The last iteration read a run of letters, digits and underscores (up to
\* the next delimiter) that is longer than the maximum.
AfterLongRun ==
    /\ AfterIteration
    /\ IsAsciiLetter(At(iter.pos)) \/ IsAsciiDigit(At(iter.pos))
          \/ At(iter.pos) = "_"
    /\ Len(IterRun) > LexemeMax

\* The cursor is past the whole run; what the iteration added is the first
\* 255 characters of the run and nothing else; a run whose first 255
\* characters are an identifier gives that identifier and no error.
LongRunTruncated ==
    LET kept == Prefix(IterRun, LexemeMax)
        ntok == Len(tokens)
        nerr == Len(lexical_errors)
        nsym == Len(symbol_table)
    IN  /\ current_pos = MaxRunEnd(iter.pos)
        /\ ntok \in {iter.ntok, iter.ntok + 1}
        /\ ntok > iter.ntok => tokens[ntok].value = kept
        /\ nerr \in {iter.nerr, iter.nerr + 1}
        /\ nerr > iter.nerr =>
              lexical_errors[nerr] = kept /\ ntok = iter.ntok
        /\ nsym \in {iter.nsym, iter.nsym + 1}
        /\ nsym > iter.nsym => symbol_table[nsym] = kept
        /\ IsIdentifier(kept) =>
              /\ ntok = iter.ntok + 1
              /\ tokens[ntok] = Token("Identifier", kept)
              /\ nerr = iter.nerr

\* The last iteration read a literal in quotes q, up to its closing quote
\* or the end of the input, that is longer than the maximum.
AfterLongLiteral(q) ==
    /\ AfterIteration
    /\ At(iter.pos) = q
    /\ LET e == NextIndexOf(q, iter.pos)
       IN  (IF e < len THEN e + 1 ELSE len) - iter.pos > StrMax

\* The cursor is past the whole literal, its first 255 characters are the
\* String token and the error list is as it was.
LongLiteralTruncated(q) ==
    LET e == NextIndexOf(q, iter.pos)
    IN  /\ current_pos = e + 1
        /\ Len(tokens) = iter.ntok + 1
        /\ tokens[Len(tokens)] =
              Token("String", Prefix(Text(iter.pos, len), StrMax))
        /\ Len(lexical_errors) = iter.nerr

\* C17: no token text, symbol-table entry or error entry is longer than
\* 255 characters; after a run or a literal longer than that the cursor is
\* past all of it, only its first 255 characters are kept and classified,
\* and the cut adds nothing to the error list.
TruncationIsSilent ==
    /\ NoTextAboveMax
    /\ AfterLongRun => LongRunTruncated
    /\ \A q \in {"\"", "'"} : AfterLongLiteral(q) => LongLiteralTruncated(q)

\* A run of 256 letters or more has been read: the token is the identifier
\* of its first 255 characters, in the symbol table, with no error.
LongIdentifierCut ==
    /\ AfterLongRun
    /\ IsIdentifier(IterRun)
    /\ tokens[Len(tokens)] = Token("Identifier", Prefix(IterRun, LexemeMax))
    /\ symbol_table = <<Prefix(IterRun, LexemeMax)>>
    /\ lexical_errors = <<>>

\* The source holds no quote character, hence no string or character
\* literal.
NoLiterals == \A k \in 0..(len - 1) : At(k) \notin {"\"", "'"}

\* C18: when tokenize has returned from a source without string or
\* character literals, the line counter is 1 plus the number of newline
\* characters of the source.
LineCounterCountsNewlines ==
    (Scanned /\ NoLiterals) => line_no = 1 + NewlinesIn(0, len)

\* An Identifier token with text s is among the tokens emitted.
EmittedIdentifier(s) ==
    \E j \in 1..Len(tokens) : tokens[j] = Token("Identifier", s)

\* C19 as stated: in every state each entry of the symbol table is the text
\* of an Identifier token that has been emitted.
SymbolsAreEmittedIdentifiers ==
    \A i \in 1..Len(symbol_table) : EmittedIdentifier(symbol_table[i])

\* read_lexeme has returned an Identifier token with text s that tokenize
\* has not pushed yet.
ReturnedIdentifier(s) ==
    pc = "lexeme_token" /\ token = Token("Identifier", s)

\* C19: in every state each entry of the symbol table is the text of an
\* Identifier token that has been emitted or that read_lexeme has just
\* returned and tokenize pushes next; at the head of the driving loop and
\* after the scan it is the text of an emitted one.  Hence every entry has
\* the form of an identifier and is no keyword: no numeric constant, string
\* literal or invalid lexeme is in the table.
SymbolsAreIdentifiers ==
    /\ \A i \in 1..Len(symbol_table) :
          /\ EmittedIdentifier(symbol_table[i])
                \/ ReturnedIdentifier(symbol_table[i])
          /\ IsIdentifier(symbol_table[i])
          /\ ~IsKeyword(symbol_table[i])
    /\ pc \in {"loop", "advance", "tokenized", "done"} =>
          SymbolsAreEmittedIdentifiers

\* read_lexeme has put a new identifier in the symbol table and returned;
\* its token is not among the tokens yet.
SymbolBeforeToken ==
    /\ pc = "lexeme_token"
    /\ Len(symbol_table) = iter.nsym + 1
    /\ ReturnedIdentifier(symbol_table[Len(symbol_table)])
    /\ ~EmittedIdentifier(symbol_table[Len(symbol_table)])

\* The value of a String token holds its first character, the delimiter,
\* nowhere else than at its end.
QuoteOnlyAtEnds(v) ==
    /\ Len(v) > 0
    /\ v[1] \in {"\"", "'"}
    /\ \A k \in 2..(Len(v) - 1) : v[k] # v[1]

\* C20: a literal ends at the first quote like its opening quote, a
\* backslash before it or not: no String token holds its delimiter between
\* its first and its last character, and "a\"b" (with its quotes) is not
\* one String token: the first token is "a\" and the literal ends there.
LiteralEndsAtFirstQuote ==
    /\ \A i \in 1..Len(tokens) :
          tokens[i].type = "String" => QuoteOnlyAtEnds(tokens[i].value)
    /\ \A q \in {"\"", "'"} :
          (AfterIteration /\ At(iter.pos) = q) =>
              current_pos = NextIndexOf(q, iter.pos) + 1
    /\ (Scanned /\ code = <<"\"", "a", "\\", "\"", "b", "\"">>) =>
          /\ tokens = <<Token("String", <<"\"", "a", "\\", "\"">>)>>
          /\ lexical_errors = <<<<"b", "\"">>>>

\* The literal of "a\"b" has ended at the quote after the backslash.
EndedAtEscapedQuote ==
    /\ AfterIteration
    /\ code = <<"\"", "a", "\\", "\"", "b", "\"">>
    /\ iter.pos = 0
    /\ current_pos = 4
    /\ tokens = <<Token("String", <<"\"", "a", "\\", "\"">>)>>

====
